---- MODULE Spec2Model ----
(***************************************************************************)
(* A model of the streaming pipeline of neuroplay_alt_sdk: the sample-rate *)
(* synchronizer (utils/data_synchronizer.py), the recording coordinator    *)
(* and its staged CSV writers (edf/edf_creator.py, csv/*.py) and the       *)
(* device session with its packet decoder (devices/*.py).                  *)
(*                                                                         *)
(* Time is the steady clock in milliseconds.  Sample values are symbolic:  *)
(* a value names the packet and the 3-byte slot it was decoded from and    *)
(* the filter stages it went through; Zero is the float 0.0.               *)
(***************************************************************************)
EXTENDS Integers, Sequences, FiniteSets, TLC

VARIABLES
    now,                  \* the steady clock (time.perf_counter), in ms
    first_run,            \* DataSynchronizer.__first_run
    expected_time_limit,  \* DataSynchronizer.__expected_time_limit: <<>> is None, <<w>> a watermark
    sync_ret,             \* history: the list the last synchronize_data call returned
    sync_arg,             \* history: the sample the last synchronize_data call was given
    sync_time,            \* history: <<>> or <<current_time of the last synchronize_data call>>
    sync_calls,           \* history: synchronize_data calls since the last reset
    sync_seed,            \* history: <<>> or <<the watermark seeded by the first call since the last reset>>
    sync_count,           \* history: vectors returned since the last reset
    sync_late,            \* history: the last call came more than Interval after the call before it
    type,                 \* AbstractNeuroPlayDevice.__type
    is_recording,         \* EDFCreator.__is_recording
    buffer,               \* EDFCreator.__buffer
    path_to_edf,          \* EDFCreator.__path_to_edf
    path_to_data_csv,     \* EDFCreator.__path_to_data_csv
    path_to_annotations_csv,  \* EDFCreator.__path_to_annotations_csv
    csv_data_writer,      \* EDFCreator.__csv_data_writer: the instance's attributes
    csv_annotations_writer,   \* EDFCreator.__csv_annotations_writer: the instance's attributes
    files,                \* the file system: path -> rows of the file, <<>> when there is no file
    valid_buffer,         \* NeuroPlayDevice.__valid_buffer
    accumulating_event,   \* NeuroPlayDevice.__accumulating_event
    accumulating_completed,   \* NeuroPlayDevice.__accumulating_completed
    is_connected,         \* AbstractNeuroPlayDevice.__is_connected
    device_client,        \* AbstractNeuroPlayDevice.__device_client: <<>> is None
    data_service,         \* AbstractNeuroPlayDevice.__data_service
    data_read_characteristic,     \* AbstractNeuroPlayDevice.__data_read_characteristic
    data_control_characteristic,  \* AbstractNeuroPlayDevice.__data_control_characteristic
    client_open,          \* the BleakClient holds an open connection
    notifying,            \* the BleakClient delivers notifications to packet_handler
    written,              \* history: the GATT writes of the last connect or disconnect call
    packets_list,         \* AbstractNeuroPlayDevice.__packets_list
    channels_filters,     \* NeuroPlayDevice.__channels_filters: per channel and stage, the
                          \* samples the stage has filtered (what its zi depends on)
    hpc,                  \* the packet_handler call that decodes: "idle", or "gather" while it awaits asyncio.gather
    hframe,               \* the packets that call decoded
    hrow,                 \* the row (1..3) whose handlers that call awaits, 0 when idle
    hraw,                 \* the raw handler task of that row: "none", "pending", "done"
    hflt,                 \* the filtered handler task of that row: "none", "pending", "done", "raised"
    hdata,                \* the filtered values handed to the filtered handler task
    handler_exc,          \* the exception the last packet_handler call ended with, "" when it returned
    received,             \* history: notifications delivered to packet_handler
    delivered,            \* history: the handler runs of the frame decoded last, in order
    realigned,            \* history: a realignment pop has happened
    validate_lock,        \* NeuroPlayDevice.__validate_lock is held
    validate_waiters,     \* the callers queued on the lock, in order of arrival
    vpc,                  \* per validate_channels caller: "idle", "lock_wait", or "waiting" in wait_for
    vdeadline,            \* per caller: <<>> or <<the clock reading at which its wait_for times out>>
    vresult,              \* per caller: how its last call ended: "none", "data", "RuntimeError"
    validated_from,       \* history: <<>> or <<the buffer the last quality result was computed from>>
    sample_bytes,         \* packet[offset:offset + 3] of one slot of a packet
    sample_int,           \* <<>> or <<the integer packet_handler multiplies by MAGIC_MICROVOLTS_BIT>>
    phase,                \* the frame id of the first packet the peripheral sends
    devices_names,        \* NeuroPlayScanner.__devices_names
    discovered_devices,   \* NeuroPlayScanner.__discovered_devices, a set of [address, device]
    generator_alive,      \* FALSE once NeuroPlayScanner.__generator was closed
    scanning,             \* TRUE between NeuroPlayScanner.start() and stop()
    sessions_made,        \* the number of calls of device_class(ble_device)
    yielded,              \* the device sessions discover_next returned, in order
    adverts,              \* the number of advertisements the generator has produced
    epoch,                \* the number of times the record of addresses was cleared
    suppressed,           \* the number of advertisements passed over for their address alone
    exc,                  \* the exception the last operation raised, "" when it returned
    ret,                  \* the value the last operation returned, "None" when it raised
    rec_emitted,          \* history: the vectors synchronize_data returned since start_recording
    rows_fed              \* history: calls of filtered_channels_data_handler

syncVars == <<first_run, expected_time_limit, sync_ret, sync_arg, sync_time, sync_calls,
             sync_seed, sync_count, sync_late>>

recVars == <<is_recording, buffer, path_to_edf, path_to_data_csv, path_to_annotations_csv,
            csv_data_writer, csv_annotations_writer, files, rec_emitted>>

valVars == <<valid_buffer, accumulating_event, accumulating_completed>>

linkVars == <<is_connected, device_client, data_service, data_read_characteristic,
             data_control_characteristic, client_open, notifying, written>>

gateVars == <<validate_lock, validate_waiters, vpc, vdeadline, vresult, validated_from>>

convVars == <<sample_bytes, sample_int>>

scanVars == <<devices_names, discovered_devices, generator_alive, scanning, sessions_made,
              yielded, adverts, epoch, suppressed>>

streamVars == <<phase>>

outVars == <<exc, ret>>

decVars == <<packets_list, channels_filters, hpc, hframe, hrow, hraw, hflt, hdata,
            handler_exc, received, delivered, realigned>>

vars == <<now, syncVars, type, recVars, valVars, gateVars, linkVars, decVars, outVars, rows_fed,
          convVars, scanVars, streamVars>>

-----------------------------------------------------------------------------
(* Bounds of the model *)

MaxClock == 40      \* the clock stops advancing here
MaxTick == 9        \* the longest single advance of the clock
MaxSyncCalls == 4   \* synchronize_data calls between two resets
MaxRows == 3        \* calls of filtered_channels_data_handler
MaxRecClock == 40   \* the clock stops advancing here when a session is modelled
MaxPackets == 6     \* notifications delivered to packet_handler
MaxValClock == 10000    \* the clock stops advancing here when validation is modelled
MaxValRows == 5     \* calls of filtered_channels_data_handler when validation is modelled

\* The rows of one second: sampling_rate is 125 in the source
\* (abstract_neuroplay_device.py:41); the model runs the same code with a second of
\* few rows, so that a full buffer is a few steps away.  The clock keeps its unit:
\* one sampling interval is Interval ticks whatever the rate.
SAMPLING_RATE == 3

-----------------------------------------------------------------------------
(* Values *)

\* the float 0.0
Zero == [pkt |-> 0, slot |-> 0, flt |-> <<>>]

\* the value decoded from slot j of the n-th received packet
RawValue(n, j) == [pkt |-> n, slot |-> j, flt |-> <<>>]

\* [v] * n
Vec(n, v) == [i \in 1..n |-> v]

None == <<>>
Some(x) == <<x>>

-----------------------------------------------------------------------------
(* DataSynchronizer *)

\* DataSynchronizer.__interval, 1 / sampling_rate seconds, in clock ticks: 8 ms at the
\* source's 125 Hz
Interval == 8

\* GapFill with the loop test written <= : one zero vector too many when the watermark
\* lands exactly on current_time
RECURSIVE GapFill_Le(_, _, _, _)
GapFill_Le(limit, current_time, buf, data) ==
    IF limit <= current_time
    THEN GapFill_Le(limit + Interval, current_time,
                    Append(buf, [gap |-> TRUE, vec |-> Vec(Len(data), Zero)]), data)
    ELSE [limit |-> limit, buffer |-> buf]

\* GapFill with the loop test looking one interval ahead: it stops one zero vector short
RECURSIVE GapFill_Short(_, _, _, _)
GapFill_Short(limit, current_time, buf, data) ==
    IF limit + Interval < current_time
    THEN GapFill_Short(limit + Interval, current_time,
                       Append(buf, [gap |-> TRUE, vec |-> Vec(Len(data), Zero)]), data)
    ELSE [limit |-> limit, buffer |-> buf]

\* the while loop of synchronize_data: zero vectors until the watermark reaches current_time
RECURSIVE GapFill(_, _, _, _)
GapFill(limit, current_time, buf, data) ==
    IF limit < current_time
    THEN GapFill(limit + Interval, current_time,
                 Append(buf, [gap |-> TRUE, vec |-> Vec(Len(data), Zero)]), data)
    ELSE [limit |-> limit, buffer |-> buf]

\* SynchronizeData with the sample appended in the first branch only: a late sample is
\* replaced by the zero vectors
SynchronizeData_DropLate(fr, lim, c, data) ==
    LET seeded == IF fr THEN c ELSE lim[1]
        advanced == seeded + Interval
        filled == IF advanced >= c
                  THEN [limit |-> advanced, buffer |-> <<[gap |-> FALSE, vec |-> data]>>]
                  ELSE GapFill(advanced, c, <<>>, data)
    IN  [first_run |-> FALSE,
         limit |-> Some(filled.limit),
         seed |-> seeded,
         buffer |-> filled.buffer]

\* SynchronizeData without the advance by one interval in the call that seeds the watermark
SynchronizeData_SeedNotAdvanced(fr, lim, c, data) ==
    LET seeded == IF fr THEN c ELSE lim[1]
        advanced == IF fr THEN seeded ELSE seeded + Interval
        filled == IF advanced >= c
                  THEN [limit |-> advanced, buffer |-> <<>>]
                  ELSE GapFill(advanced, c, <<>>, data)
    IN  [first_run |-> FALSE,
         limit |-> Some(filled.limit),
         seed |-> seeded,
         buffer |-> Append(filled.buffer, [gap |-> FALSE, vec |-> data])]

\* synchronize_data(data) with the synchronizer in state (fr, lim) and the clock reading c:
\* the new state and the returned list.  An entry of the list is tagged gap when it is a
\* zero vector built by the loop and not the caller's object.
SynchronizeData(fr, lim, c, data) ==
    LET seeded == IF fr THEN c ELSE lim[1]
        advanced == seeded + Interval
        filled == IF advanced >= c
                  THEN [limit |-> advanced, buffer |-> <<>>]
                  ELSE GapFill(advanced, c, <<>>, data)
    IN  [first_run |-> FALSE,
         limit |-> Some(filled.limit),
         seed |-> seeded,
         buffer |-> Append(filled.buffer, [gap |-> FALSE, vec |-> data])]

\* the call itself: the synchronizer's fields and the call's history
SyncCallEffect(data) ==
    LET r == SynchronizeData(first_run, expected_time_limit, now, data)
    IN  /\ first_run' = r.first_run
        /\ expected_time_limit' = r.limit
        /\ sync_ret' = r.buffer
        /\ sync_arg' = Some(data)
        /\ sync_time' = Some(now)
        /\ sync_late' = (sync_time # None /\ now - sync_time[1] > Interval)
        /\ sync_calls' = sync_calls + 1
        /\ sync_seed' = IF first_run THEN Some(r.seed) ELSE sync_seed
        /\ sync_count' = sync_count + Len(r.buffer)

\* a reset that leaves the synchronizer as it is
ResetEffect_Noop == UNCHANGED syncVars

\* DataSynchronizer.reset
ResetEffect ==
    /\ first_run' = TRUE
    /\ expected_time_limit' = None
    /\ sync_ret' = <<>>
    /\ sync_arg' = None
    /\ sync_calls' = 0
    /\ UNCHANGED <<sync_time, sync_late>>
    /\ sync_seed' = None
    /\ sync_count' = 0

-----------------------------------------------------------------------------
(* AbstractCSVWriter, CSVDataWriter, CSVAnnotationsWriter *)

\* Python mangles a name written __x inside class K to _K__x: the attributes that
\* AbstractCSVWriter.__init__ sets on a writer
ATTR_CSV_FILE_PATH == "_AbstractCSVWriter__csv_file_path"
ATTR_COLUMNS_NAMES == "_AbstractCSVWriter__columns_names"
ATTR_IS_RECORDING == "_AbstractCSVWriter__is_recording"
ATTR_START_TIME == "_CSVAnnotationsWriter__start_time"

HasAttr(obj, name) == name \in DOMAIN obj

\* AbstractCSVWriter.__init__(columns_names)
NewCSVWriter(columns_names) ==
    [a \in {ATTR_CSV_FILE_PATH, ATTR_COLUMNS_NAMES, ATTR_IS_RECORDING} |->
        CASE a = ATTR_CSV_FILE_PATH -> None
          [] a = ATTR_COLUMNS_NAMES -> Some(columns_names)
          [] a = ATTR_IS_RECORDING -> Some(FALSE)]

ANNOTATION_COLUMN_NAMES == <<"time", "text">>

\* CSVAnnotationsWriter.__init__
NewCSVAnnotationsWriter ==
    [a \in {ATTR_CSV_FILE_PATH, ATTR_COLUMNS_NAMES, ATTR_IS_RECORDING, ATTR_START_TIME} |->
        CASE a = ATTR_CSV_FILE_PATH -> None
          [] a = ATTR_COLUMNS_NAMES -> Some(ANNOTATION_COLUMN_NAMES)
          [] a = ATTR_IS_RECORDING -> Some(FALSE)
          [] a = ATTR_START_TIME -> None]

\* AbstractCSVWriter.start_writing(path) on writer w with the files fl; io_fails: the open
\* of the file raises.  The writer, the files, the exception raised and the time returned.
StartWriting(w, fl, path, clock, io_fails) ==
    IF ~w[ATTR_IS_RECORDING][1]
    THEN LET w1 == [w EXCEPT ![ATTR_CSV_FILE_PATH] = Some(path)]
         IN  IF io_fails
             THEN [w |-> w1, files |-> fl, exc |-> "OSError", start_time |-> None]
             ELSE [w |-> [w1 EXCEPT ![ATTR_IS_RECORDING] = Some(TRUE)],
                   files |-> [fl EXCEPT ![path] = <<w[ATTR_COLUMNS_NAMES][1]>>],
                   exc |-> "",
                   start_time |-> Some(clock)]
    ELSE [w |-> w, files |-> fl, exc |-> "RuntimeError", start_time |-> None]

\* AbstractCSVWriter.stop_writing
StopWriting(w) ==
    IF ~w[ATTR_IS_RECORDING][1]
    THEN [w |-> w, exc |-> "RuntimeError"]
    ELSE [w |-> [w EXCEPT ![ATTR_CSV_FILE_PATH] = None, ![ATTR_IS_RECORDING] = Some(FALSE)],
          exc |-> ""]

\* CSVDataWriter.append_rows(data): it reads self._is_recording and self._csv_file_path,
\* names that no class mangles
AppendRows(w, fl, data) ==
    IF ~HasAttr(w, "_is_recording")
    THEN [files |-> fl, exc |-> "AttributeError"]
    ELSE IF w["_is_recording"][1]
         THEN [files |-> [fl EXCEPT ![w["_csv_file_path"][1]] = @ \o data], exc |-> ""]
         ELSE [files |-> fl, exc |-> "RuntimeError"]

\* CSVAnnotationsWriter.append_annotation(text) at the clock reading given: it reads
\* self._is_recording and self._csv_file_path as append_rows does
AppendAnnotation(w, fl, text, clock) ==
    IF ~HasAttr(w, "_is_recording")
    THEN [files |-> fl, exc |-> "AttributeError"]
    ELSE IF w["_is_recording"][1]
         THEN [files |-> [fl EXCEPT ![w["_csv_file_path"][1]] =
                             Append(@, <<clock - w[ATTR_START_TIME][1], text>>)],
               exc |-> ""]
         ELSE [files |-> fl, exc |-> "RuntimeError"]

-----------------------------------------------------------------------------
(* EDFCreator *)

CHANNELS_6C == <<"O1", "T3", "Fp1", "Fp2", "T4", "O2">>
CHANNELS_8CAP == <<"O1", "P3", "C3", "F3", "F4", "C4", "P4", "O2">>

\* AbstractNeuroPlayDevice.channels_names
ChannelsNames(t) == IF t = "NEUROPLAY_6C" THEN CHANNELS_6C ELSE CHANNELS_8CAP

\* AbstractNeuroPlayDevice.channels_count
ChannelsCount(t) == Len(ChannelsNames(t))

\* a path is <<directory, file name>>
Parent(path) == path[1]
JoinPath(dir, name) == <<dir, name>>

EdfPaths == {<<"rec", "s.edf">>}
AllPaths == EdfPaths \cup {JoinPath(Parent(p), n) : p \in EdfPaths, n \in {"data.csv", "annotations.csv"}}

\* EDFCreator.write_data(data) on the buffer buf: the buffer, the files and the exception
WriteData(buf, w, fl, data) ==
    LET buf1 == Append(buf, data)
    IN  IF Len(buf1) >= SAMPLING_RATE
        THEN LET r == AppendRows(w, fl, buf1)
             IN  IF r.exc # ""
                 THEN [buffer |-> buf1, files |-> fl, exc |-> r.exc]
                 ELSE [buffer |-> <<>>, files |-> r.files, exc |-> ""]
        ELSE [buffer |-> buf1, files |-> fl, exc |-> ""]

\* the loop of filtered_channels_data_handler over the list synchronize_data returned,
\* from its i-th entry on; an exception of write_data ends it
RECURSIVE WriteAll(_, _, _, _, _)
WriteAll(buf, w, fl, timed, i) ==
    IF i > Len(timed)
    THEN [buffer |-> buf, files |-> fl, exc |-> ""]
    ELSE LET r == WriteData(buf, w, fl, timed[i].vec)
         IN  IF r.exc # "" THEN r ELSE WriteAll(r.buffer, w, r.files, timed, i + 1)

\* a start_recording that fires the start callbacks before it tests the flag
StartRecording_ResetFirst(output_edf_path, io) ==
    IF is_recording
    THEN /\ exc' = "RuntimeError"
         /\ ResetEffect
         /\ UNCHANGED recVars
    ELSE LET data_path == JoinPath(Parent(output_edf_path), "data.csv")
             ann_path == JoinPath(Parent(output_edf_path), "annotations.csv")
             d == StartWriting(csv_data_writer, files, data_path, now, io = "data")
             ann0 == [csv_annotations_writer EXCEPT ![ATTR_START_TIME] =
                         IF d.start_time # None /\ d.start_time[1] # 0
                         THEN d.start_time ELSE Some(now)]
             a == StartWriting(ann0, d.files, ann_path, now, io = "annotations")
         IN  /\ ResetEffect
             /\ is_recording' = TRUE
             /\ path_to_edf' = Some(output_edf_path)
             /\ path_to_annotations_csv' = Some(ann_path)
             /\ path_to_data_csv' = Some(data_path)
             /\ rec_emitted' = <<>>
             /\ csv_data_writer' = d.w
             /\ UNCHANGED buffer
             /\ IF d.exc # ""
                THEN /\ exc' = d.exc
                     /\ files' = d.files
                     /\ UNCHANGED csv_annotations_writer
                ELSE /\ exc' = a.exc
                     /\ files' = a.files
                     /\ csv_annotations_writer' = a.w

\* EDFCreator.start_recording(output_edf_path); io names the open that fails, if any
StartRecording(output_edf_path, io) ==
    IF is_recording
    THEN /\ exc' = "RuntimeError"
         /\ UNCHANGED <<syncVars, recVars>>
    ELSE LET data_path == JoinPath(Parent(output_edf_path), "data.csv")
             ann_path == JoinPath(Parent(output_edf_path), "annotations.csv")
             d == StartWriting(csv_data_writer, files, data_path, now, io = "data")
             ann0 == [csv_annotations_writer EXCEPT ![ATTR_START_TIME] =
                         IF d.start_time # None /\ d.start_time[1] # 0
                         THEN d.start_time ELSE Some(now)]
             a == StartWriting(ann0, d.files, ann_path, now, io = "annotations")
         IN  /\ ResetEffect
             /\ is_recording' = TRUE
             /\ path_to_edf' = Some(output_edf_path)
             /\ path_to_annotations_csv' = Some(ann_path)
             /\ path_to_data_csv' = Some(data_path)
             /\ rec_emitted' = <<>>
             /\ csv_data_writer' = d.w
             /\ UNCHANGED buffer
             /\ IF d.exc # ""
                THEN /\ exc' = d.exc
                     /\ files' = d.files
                     /\ UNCHANGED csv_annotations_writer
                ELSE /\ exc' = a.exc
                     /\ files' = a.files
                     /\ csv_annotations_writer' = a.w

\* EDFCreator.stop_recording; edf_fails: save_csv_as_edf raises
StopRecording(edf_fails) ==
    IF ~is_recording
    THEN /\ exc' = "RuntimeError"
         /\ UNCHANGED <<syncVars, recVars>>
    ELSE LET flush == IF buffer # <<>>
                      THEN AppendRows(csv_data_writer, files, buffer)
                      ELSE [files |-> files, exc |-> ""]
             a == StopWriting(csv_annotations_writer)
             d == StopWriting(csv_data_writer)
         IN  /\ UNCHANGED <<syncVars, rec_emitted>>
             /\ IF flush.exc # ""
                THEN /\ exc' = flush.exc
                     /\ UNCHANGED <<is_recording, buffer, path_to_edf, path_to_data_csv,
                                    path_to_annotations_csv, csv_data_writer,
                                    csv_annotations_writer, files>>
                ELSE /\ buffer' = <<>>
                     /\ IF a.exc # ""
                        THEN /\ exc' = a.exc
                             /\ files' = flush.files
                             /\ UNCHANGED <<is_recording, path_to_edf, path_to_data_csv,
                                            path_to_annotations_csv, csv_data_writer,
                                            csv_annotations_writer>>
                        ELSE /\ csv_annotations_writer' =
                                    [a.w EXCEPT ![ATTR_START_TIME] = None]
                             /\ IF d.exc # ""
                                THEN /\ exc' = d.exc
                                     /\ files' = flush.files
                                     /\ UNCHANGED <<is_recording, path_to_edf, path_to_data_csv,
                                                    path_to_annotations_csv, csv_data_writer>>
                                ELSE /\ csv_data_writer' = d.w
                                     /\ IF edf_fails
                                        THEN /\ exc' = "EdfError"
                                             /\ files' = flush.files
                                             /\ UNCHANGED <<is_recording, path_to_edf,
                                                            path_to_data_csv,
                                                            path_to_annotations_csv>>
                                        ELSE /\ exc' = ""
                                             /\ files' = [flush.files EXCEPT ![path_to_edf[1]] =
                                                             flush.files[path_to_data_csv[1]]]
                                             /\ path_to_edf' = None
                                             /\ path_to_data_csv' = None
                                             /\ path_to_annotations_csv' = None
                                             /\ is_recording' = FALSE

\* EDFCreator.write_annotation(text)
WriteAnnotation(text) ==
    IF ~is_recording
    THEN /\ exc' = "RuntimeError"
         /\ UNCHANGED <<syncVars, recVars>>
    ELSE LET r == AppendAnnotation(csv_annotations_writer, files, text, now)
         IN  /\ exc' = r.exc
             /\ files' = r.files
             /\ UNCHANGED <<syncVars, is_recording, buffer, path_to_edf, path_to_data_csv,
                            path_to_annotations_csv, csv_data_writer, csv_annotations_writer,
                            rec_emitted>>

-----------------------------------------------------------------------------
(* AbstractNeuroPlayDevice: connect and disconnect *)

BLUETOOTH_UUID_EEG == "f0001298-0451-4000-b000-000000000000"
BLUETOOTH_UUID_EEG_DATA == "f0001299-0451-4000-b000-000000000000"
BLUETOOTH_UUID_EEG_CONTROL == "f000129a-0451-4000-b000-000000000000"

\* the step of connect or disconnect at which the transport raises, if any
ConnectFailures == {"none", "connect", "write_data", "write_control", "start_notify"}
DisconnectFailures == {"none", "write_data", "stop_notify"}

\* the finally clause of connect, on the fields as the try block left them
ConnectCleanup(client, service, read, control) ==
    IF service = None /\ read = None /\ control = None
    THEN /\ device_client' = None
         /\ data_service' = None
         /\ data_control_characteristic' = None
         /\ data_read_characteristic' = None
    ELSE /\ device_client' = client
         /\ data_service' = service
         /\ data_control_characteristic' = control
         /\ data_read_characteristic' = read

\* AbstractNeuroPlayDevice.connect against a peripheral that has the EEG service (svc),
\* its control characteristic (ctl) and its data characteristic (dat)
Connect(svc, ctl, dat, fail) ==
    LET service == IF svc THEN Some(BLUETOOTH_UUID_EEG) ELSE None
        control == IF ctl THEN Some(BLUETOOTH_UUID_EEG_CONTROL) ELSE None
        read == IF dat THEN Some(BLUETOOTH_UUID_EEG_DATA) ELSE None
        start == <<BLUETOOTH_UUID_EEG_DATA, <<1, 0>>>>
        channels == <<BLUETOOTH_UUID_EEG_CONTROL, <<1, 1>>>>
    IN  IF is_connected
        THEN /\ exc' = "RuntimeError"
             /\ ret' = "None"
             /\ UNCHANGED linkVars
        ELSE IF device_client = None
        THEN /\ exc' = "AttributeError"
             /\ ret' = "None"
             /\ written' = <<>>
             /\ ConnectCleanup(device_client, data_service, data_read_characteristic,
                               data_control_characteristic)
             /\ UNCHANGED <<is_connected, client_open, notifying>>
        ELSE IF fail = "connect"
        THEN /\ exc' = "BleakError"
             /\ ret' = "None"
             /\ written' = <<>>
             /\ ConnectCleanup(device_client, data_service, data_read_characteristic,
                               data_control_characteristic)
             /\ UNCHANGED <<is_connected, client_open, notifying>>
        ELSE IF service = None
        THEN /\ exc' = ""
             /\ ret' = "False"
             /\ written' = <<>>
             /\ client_open' = TRUE
             /\ ConnectCleanup(device_client, service, data_read_characteristic,
                               data_control_characteristic)
             /\ UNCHANGED <<is_connected, notifying>>
        ELSE IF control = None /\ read = None
        THEN /\ exc' = ""
             /\ ret' = "False"
             /\ written' = <<>>
             /\ client_open' = TRUE
             /\ ConnectCleanup(device_client, service, read, control)
             /\ UNCHANGED <<is_connected, notifying>>
        ELSE IF read = None \/ fail = "write_data"
        THEN /\ exc' = "BleakError"
             /\ ret' = "None"
             /\ written' = <<>>
             /\ client_open' = TRUE
             /\ ConnectCleanup(device_client, service, read, control)
             /\ UNCHANGED <<is_connected, notifying>>
        ELSE IF control = None \/ fail = "write_control"
        THEN /\ exc' = "BleakError"
             /\ ret' = "None"
             /\ written' = <<start>>
             /\ client_open' = TRUE
             /\ ConnectCleanup(device_client, service, read, control)
             /\ UNCHANGED <<is_connected, notifying>>
        ELSE IF fail = "start_notify"
        THEN /\ exc' = "BleakError"
             /\ ret' = "None"
             /\ written' = <<start, channels>>
             /\ client_open' = TRUE
             /\ ConnectCleanup(device_client, service, read, control)
             /\ UNCHANGED <<is_connected, notifying>>
        ELSE /\ exc' = ""
             /\ ret' = "True"
             /\ written' = <<start, channels>>
             /\ client_open' = TRUE
             /\ notifying' = TRUE
             /\ is_connected' = TRUE
             /\ ConnectCleanup(device_client, service, read, control)

\* NeuroPlayDevice.on_disconnected
OnDisconnected == ResetEffect

\* a disconnect whose transport error leaves the call before the client is closed
Disconnect_Propagate(fail) ==
    IF ~is_connected
    THEN /\ exc' = "RuntimeError"
         /\ ret' = "None"
         /\ UNCHANGED <<linkVars, syncVars>>
    ELSE IF fail # "none"
    THEN /\ exc' = "BleakError"
         /\ ret' = "None"
         /\ written' = IF fail = "write_data" THEN <<>>
                       ELSE <<<<BLUETOOTH_UUID_EEG_DATA, <<0, 0>>>>>>
         /\ UNCHANGED <<syncVars, is_connected, client_open, notifying, device_client,
                        data_service, data_read_characteristic, data_control_characteristic>>
    ELSE /\ written' = <<<<BLUETOOTH_UUID_EEG_DATA, <<0, 0>>>>>>
         /\ client_open' = FALSE
         /\ notifying' = FALSE
         /\ is_connected' = FALSE
         /\ OnDisconnected
         /\ exc' = ""
         /\ ret' = "None"
         /\ UNCHANGED <<device_client, data_service, data_read_characteristic,
                        data_control_characteristic>>

\* AbstractNeuroPlayDevice.disconnect; a BleakError of the stop write or of stop_notify is
\* logged, and the finally clause closes the client
Disconnect(fail) ==
    IF ~is_connected
    THEN /\ exc' = "RuntimeError"
         /\ ret' = "None"
         /\ UNCHANGED <<linkVars, syncVars>>
    ELSE /\ written' = IF fail = "write_data" THEN <<>>
                       ELSE <<<<BLUETOOTH_UUID_EEG_DATA, <<0, 0>>>>>>
         /\ client_open' = FALSE
         /\ notifying' = FALSE
         /\ is_connected' = FALSE
         /\ OnDisconnected
         /\ exc' = ""
         /\ ret' = "None"
         /\ UNCHANGED <<device_client, data_service, data_read_characteristic,
                        data_control_characteristic>>

-----------------------------------------------------------------------------
(* NeuroPlayDevice: the filtered handler *)

\* NeuroPlayDevice.filtered_channels_data_handler(data)
FilteredChannelsDataHandler(data) ==
    LET s == SynchronizeData(first_run, expected_time_limit, now, data)
        r == IF is_recording
             THEN WriteAll(buffer, csv_data_writer, files, s.buffer, 1)
             ELSE [buffer |-> buffer, files |-> files, exc |-> ""]
        vb == Append(valid_buffer, data)
    IN  /\ IF is_recording
           THEN /\ SyncCallEffect(data)
                /\ rec_emitted' = rec_emitted \o [i \in 1..Len(s.buffer) |-> s.buffer[i].vec]
           ELSE UNCHANGED <<syncVars, rec_emitted>>
        /\ buffer' = r.buffer
        /\ files' = r.files
        /\ exc' = r.exc
        /\ UNCHANGED <<is_recording, path_to_edf, path_to_data_csv, path_to_annotations_csv,
                       csv_data_writer, csv_annotations_writer>>
        /\ IF r.exc = "" /\ accumulating_event
           THEN /\ valid_buffer' = vb
                /\ IF Len(vb) >= SAMPLING_RATE
                   THEN accumulating_event' = FALSE /\ accumulating_completed' = TRUE
                   ELSE UNCHANGED <<accumulating_event, accumulating_completed>>
           ELSE UNCHANGED valVars

-----------------------------------------------------------------------------
(* NeuroPlayDevice.validate_channels *)

\* the tasks that call validate_channels
Callers == {1, 2}

\* asyncio.wait_for(..., timeout=5), in ms
VALIDATE_TIMEOUT == 5000

\* a raise that leaves the lock held
ValidateRaise_KeepLock(c) ==
    /\ vpc' = [vpc EXCEPT ![c] = "idle"]
    /\ vdeadline' = [vdeadline EXCEPT ![c] = None]
    /\ vresult' = [vresult EXCEPT ![c] = "RuntimeError"]
    /\ validate_lock' = validate_lock
    /\ UNCHANGED validated_from

\* the end of a validate_channels call that raises RuntimeError: the lock is released
ValidateRaise(c) ==
    /\ vpc' = [vpc EXCEPT ![c] = "idle"]
    /\ vdeadline' = [vdeadline EXCEPT ![c] = None]
    /\ vresult' = [vresult EXCEPT ![c] = "RuntimeError"]
    /\ validate_lock' = FALSE
    /\ UNCHANGED validated_from

\* __reset_accumulation
ResetAccumulation ==
    /\ valid_buffer' = <<>>
    /\ accumulating_completed' = FALSE

\* validate_channels after wait_for has returned, to the end of the call; ev: the
\* accumulating event as the call leaves it
ValidateAfterWait(c, ev) ==
    /\ accumulating_event' = ev
    /\ ResetAccumulation
    /\ IF ~is_connected
       THEN ValidateRaise(c)
       ELSE /\ vpc' = [vpc EXCEPT ![c] = "idle"]
            /\ vdeadline' = [vdeadline EXCEPT ![c] = None]
            /\ vresult' = [vresult EXCEPT ![c] = "data"]
            /\ validated_from' = Some(valid_buffer)
            /\ validate_lock' = FALSE

\* validate_channels from the lock acquired to its first suspension.  When the completed
\* event is already set, wait_for returns without suspending (timeouts.timeout) or only
\* after the loop has run other tasks (ensure_future and a waiter), by the Python it runs on.
ValidateEnter(c) ==
    IF ~is_connected
    THEN ValidateRaise(c) /\ UNCHANGED valVars
    ELSE \/ /\ accumulating_event' = TRUE
            /\ vpc' = [vpc EXCEPT ![c] = "waiting"]
            /\ vdeadline' = [vdeadline EXCEPT ![c] = Some(now + VALIDATE_TIMEOUT)]
            /\ validate_lock' = TRUE
            /\ UNCHANGED <<valid_buffer, accumulating_completed, vresult, validated_from>>
         \/ /\ accumulating_completed
            /\ ValidateAfterWait(c, TRUE)

\* validate_channels called by c: the lock is taken when it is free and nobody queues
ValidateChannels(c) ==
    IF ~validate_lock /\ validate_waiters = <<>>
    THEN ValidateEnter(c) /\ UNCHANGED validate_waiters
    ELSE /\ vpc' = [vpc EXCEPT ![c] = "lock_wait"]
         /\ validate_waiters' = Append(validate_waiters, c)
         /\ UNCHANGED <<valVars, validate_lock, vdeadline, vresult, validated_from>>

\* the released lock wakes the caller that queued first
LockGranted ==
    /\ validate_waiters' = Tail(validate_waiters)
    /\ ValidateEnter(Head(validate_waiters))

\* wait_for raises TimeoutError in caller c
ValidateTimeout(c) ==
    /\ ResetAccumulation
    /\ ValidateRaise(c)
    /\ UNCHANGED <<accumulating_event, validate_waiters>>

-----------------------------------------------------------------------------
(* AbstractNeuroPlayDevice.packet_handler and the filters *)

QUEUE_SIZE == 4

PACKET_SIZE == 20

\* a packet is its first byte, its arrival number, which stands for its payload, and its
\* length in bytes
SizedPacket(b, n, size) == [byte0 |-> b, n |-> n, size |-> size]

\* a packet of the full length
Packet(b, n) == SizedPacket(b, n, PACKET_SIZE)

\* packet[0] & 0x03
FrameId(packet) == packet.byte0 % 4

\* the bytes packet[offset:offset + 3] holds for slot j, offset 2 + 3j
SlotBytes(packet, j) ==
    LET left == packet.size - (2 + 3 * j)
    IN  IF left >= 3 THEN 3 ELSE IF left <= 0 THEN 0 ELSE left

\* int.from_bytes(bytes, byteorder='big', signed=True): the first byte carries the sign
RECURSIVE FromBytesBigSigned(_)
FromBytesBigSigned(bytes) ==
    IF bytes = <<>> THEN 0
    ELSE LET n == Len(bytes)
             last == bytes[n]
             front == SubSeq(bytes, 1, n - 1)
         IN  IF n = 1
             THEN (IF last >= 128 THEN last - 256 ELSE last)
             ELSE FromBytesBigSigned(front) * 256 + last

\* int.from_bytes(packet[offset:offset + 3] + bytes([0x00]), byteorder='big', signed=True)
SampleInteger(bytes) == FromBytesBigSigned(bytes \o <<0>>)

\* raw_sample_values_array[m], m in 0..23: slot m % 6 of the packet m \div 6 of the frame;
\* a slice cut short by the end of the packet is converted all the same
RawSample(frame, m) ==
    LET packet == frame[(m \div 6) + 1]
        j == m % 6
    IN  IF SlotBytes(packet, j) = 3
        THEN RawValue(packet.n, j)
        ELSE [pkt |-> packet.n, slot |-> j, flt |-> <<>>, bytes |-> SlotBytes(packet, j)]

\* the columns np.delete(samples_packets, [6, 1], axis=1) keeps
KeptColumns(t) == IF t = "NEUROPLAY_6C" THEN <<0, 2, 3, 4, 5, 7>> ELSE <<0, 1, 2, 3, 4, 5, 6, 7>>

\* samples_packets: reshape(3, 8), then the columns of the device; row r in 1..3
SamplesPackets(frame, t) ==
    [r \in 1..3 |-> [k \in 1..Len(KeptColumns(t)) |->
                        RawSample(frame, 8 * (r - 1) + KeptColumns(t)[k])]]

FILTER_STAGES == <<"high", "low", "notch">>

\* FiltersContainer.apply_filter: the stages in the order they were added
ApplyFilter(value) == [value EXCEPT !.flt = @ \o FILTER_STAGES]

\* NeuroPlayDevice.filter_sample_data: channel k through cascade k
FilterSampleData(data) == [k \in 1..Len(data) |-> ApplyFilter(data[k])]

\* a cascade that feeds its stages in the order notch, low-pass, high-pass
ContainerAfter_Reordered(container, value) ==
    [st \in 1..Len(FILTER_STAGES) |->
        Append(container[st],
               [value EXCEPT !.flt = @ \o [i \in 1..(Len(FILTER_STAGES) - st) |->
                                              FILTER_STAGES[Len(FILTER_STAGES) + 1 - i]]])]

\* the stages of one FiltersContainer after apply_filter(value): stage st has filtered
\* what the stages before it returned, and lfilter has replaced its zi
ContainerAfter(container, value) ==
    [st \in 1..Len(FILTER_STAGES) |->
        Append(container[st],
               [value EXCEPT !.flt = @ \o SubSeq(FILTER_STAGES, 1, st - 1)])]

\* __channels_filters after filter_sample_data(data): zip pairs cascade k with data[k]
FiltersAfter(filters, data) ==
    [k \in DOMAIN filters |->
        IF k <= Len(data) THEN ContainerAfter(filters[k], data[k]) ELSE filters[k]]

\* a gather that returns with the first task done
GatherDone_First(raw, flt) == raw = "done"

\* asyncio.gather returns once both handler tasks are done
GatherDone(raw, flt) == raw = "done" /\ flt \in {"done", "raised"}

\* the body of the for loop up to its await: row r is filtered and both handlers scheduled
AwaitRow(frame, r) ==
    /\ hpc' = "gather"
    /\ hframe' = frame
    /\ hrow' = r
    /\ hraw' = "pending"
    /\ hflt' = "pending"
    /\ hdata' = FilterSampleData(SamplesPackets(frame, type)[r])
    /\ channels_filters' = FiltersAfter(channels_filters, SamplesPackets(frame, type)[r])

\* packet_handler(_, packet) up to its return or its first await
PacketHandler(packet) ==
    LET pl == Append(packets_list, packet)
    IN  /\ received' = received + 1
        /\ IF Len(pl) # QUEUE_SIZE
           THEN /\ packets_list' = pl
                /\ UNCHANGED <<channels_filters, hpc, hframe, hrow, hraw, hflt, hdata,
                               handler_exc, delivered, realigned>>
           ELSE IF FrameId(pl[1]) # 0
           THEN /\ packets_list' = Tail(pl)
                /\ realigned' = TRUE
                /\ handler_exc' = ""
                /\ UNCHANGED <<channels_filters, hpc, hframe, hrow, hraw, hflt, hdata,
                               delivered>>
           ELSE /\ packets_list' = pl
                /\ delivered' = <<>>
                /\ AwaitRow(pl, 1)
                /\ UNCHANGED <<handler_exc, realigned>>

\* the raw handler task: NeuroPlayDevice.raw_channels_data_handler
RawChannelsDataHandler ==
    /\ hraw' = "done"
    /\ delivered' = Append(delivered, [row |-> hrow, handler |-> "raw",
                                       data |-> SamplesPackets(hframe, type)[hrow]])
    /\ UNCHANGED <<packets_list, channels_filters, hpc, hframe, hrow, hflt, hdata,
                   handler_exc, received, realigned>>

\* the filtered handler task
FilteredTask ==
    /\ FilteredChannelsDataHandler(hdata)
    /\ hflt' = IF exc' = "" THEN "done" ELSE "raised"
    /\ delivered' = Append(delivered, [row |-> hrow, handler |-> "filtered", data |-> hdata])
    /\ UNCHANGED <<packets_list, channels_filters, hpc, hframe, hrow, hraw, hdata,
                   handler_exc, received, realigned>>

\* packet_handler resumed by gather: the exception of a handler ends it, else the next
\* row, and after the third row self.__packets_list.clear()
ResumePacketHandler ==
    IF hflt = "raised"
    THEN /\ hpc' = "idle"
         /\ hrow' = 0
         /\ hraw' = "none"
         /\ hflt' = "none"
         /\ hdata' = <<>>
         /\ handler_exc' = exc
         /\ UNCHANGED <<packets_list, channels_filters, hframe, received, delivered, realigned>>
    ELSE IF hrow < 3
    THEN /\ AwaitRow(hframe, hrow + 1)
         /\ UNCHANGED <<packets_list, handler_exc, received, delivered, realigned>>
    ELSE /\ packets_list' = <<>>
         /\ hpc' = "idle"
         /\ hrow' = 0
         /\ hraw' = "none"
         /\ hflt' = "none"
         /\ hdata' = <<>>
         /\ handler_exc' = ""
         /\ UNCHANGED <<channels_filters, hframe, received, delivered, realigned>>

-----------------------------------------------------------------------------
(* NeuroPlayScanner *)

\* the values of NeuroPlayDevicesEnum, a name being a sequence of pieces of text
ALL == <<"NeuroPlay">>
NEUROPLAY_6C == <<"NeuroPlay", "-6C">>
NEUROPLAY_8CAP == <<"NeuroPlay", "-8Cap">>

\* the pieces r'\s' and r'\((\d+)\)' match
Blanks == {" "}
IdPieces == {"(1234)", "(77)"}

\* name.value in device_name
Contains(value, device_name) ==
    \E i \in 0..(Len(device_name) - Len(value)) :
        SubSeq(device_name, i + 1, i + Len(value)) = value

\* re.fullmatch(r'(.+)\s\((\d+)\)$', full_name)
FullMatch(full_name) ==
    /\ Len(full_name) >= 3
    /\ full_name[Len(full_name)] \in IdPieces
    /\ full_name[Len(full_name) - 1] \in Blanks

\* match.group(1)
MatchedName(full_name) == SubSeq(full_name, 1, Len(full_name) - 2)

\* AbstractNeuroPlayDevice.__init__: the exception it raises, "" when it constructs
DeviceClassRaises(full_name) ==
    IF ~FullMatch(full_name) THEN "NeuroPlayExceptionNotValidDevice"
    ELSE IF MatchedName(full_name) \in {NEUROPLAY_6C, NEUROPLAY_8CAP} THEN ""
    ELSE "AssertionError"

\* the state after NeuroPlayScanner.__init__
InitScanner(names) ==
    /\ devices_names = names
    /\ discovered_devices = {}
    /\ generator_alive = TRUE
    /\ scanning = FALSE
    /\ sessions_made = 0
    /\ yielded = <<>>
    /\ adverts = 0
    /\ epoch = 0
    /\ suppressed = 0

RecordedAddresses == {r.address : r \in discovered_devices}

\* __is_valid_device without the test of the address
IsValidDevice_AnyAddress(device_name, device_address) ==
    /\ device_name # <<>>
    /\ \E name \in devices_names : Contains(name, device_name)

IsValidDevice(device_name, device_address) ==
    /\ device_name # <<>>
    /\ \E name \in devices_names : Contains(name, device_name)
    /\ device_address \notin RecordedAddresses

\* one turn of the loop of discover_next, on the advertisement the generator produced
DiscoverNext(device_name, device_address) ==
    /\ adverts' = adverts + 1
    /\ suppressed' = IF /\ device_name # <<>>
                        /\ \E name \in devices_names : Contains(name, device_name)
                        /\ device_address \in RecordedAddresses
                     THEN suppressed + 1
                     ELSE suppressed
    /\ IF IsValidDevice(device_name, device_address)
       THEN /\ sessions_made' = sessions_made + 1
            /\ IF DeviceClassRaises(device_name) # ""
               THEN /\ exc' = DeviceClassRaises(device_name)
                    /\ UNCHANGED <<discovered_devices, yielded, ret>>
               ELSE LET neuroplay_device == [address |-> device_address,
                                             full_name |-> device_name,
                                             n |-> sessions_made + 1]
                    IN  /\ discovered_devices' =
                              {r \in discovered_devices : r.address # device_address}
                                  \cup {[address |-> device_address,
                                         device |-> neuroplay_device]}
                        /\ yielded' = Append(yielded, [device |-> neuroplay_device,
                                                       epoch |-> epoch])
                        /\ ret' = neuroplay_device
                        /\ exc' = ""
       ELSE UNCHANGED <<discovered_devices, sessions_made, yielded, exc, ret>>
    /\ UNCHANGED <<devices_names, generator_alive, scanning, epoch>>

\* discover_next when asyncio.timeout(timeout) expires: the generator is closed
DiscoverNextTimeout ==
    /\ generator_alive' = FALSE
    /\ exc' = "TimeoutError"
    /\ UNCHANGED <<devices_names, discovered_devices, scanning, sessions_made, yielded,
                   adverts, epoch, suppressed, ret>>

\* discover_next on the closed generator: the loop ends at once
DiscoverNextExhausted ==
    /\ ret' = None
    /\ exc' = ""
    /\ UNCHANGED scanVars

ClearDiscoveredDevices ==
    /\ discovered_devices' = {}
    /\ epoch' = epoch + 1
    /\ UNCHANGED <<devices_names, generator_alive, scanning, sessions_made, yielded, adverts,
                   suppressed>>

-----------------------------------------------------------------------------
(* The device *)

DeviceTypes == {"NEUROPLAY_6C", "NEUROPLAY_8CAP"}

\* the state after NeuroPlayDevice.__init__
InitDevice ==
    /\ type \in DeviceTypes
    /\ is_recording = FALSE
    /\ buffer = <<>>
    /\ path_to_edf = None
    /\ path_to_data_csv = None
    /\ path_to_annotations_csv = None
    /\ csv_data_writer = NewCSVWriter(ChannelsNames(type))
    /\ csv_annotations_writer = NewCSVAnnotationsWriter
    /\ files = [p \in AllPaths |-> <<>>]
    /\ valid_buffer = <<>>
    /\ accumulating_event = FALSE
    /\ accumulating_completed = FALSE
    /\ validate_lock = FALSE
    /\ validate_waiters = <<>>
    /\ vpc = [c \in Callers |-> "idle"]
    /\ vdeadline = [c \in Callers |-> None]
    /\ vresult = [c \in Callers |-> "none"]
    /\ validated_from = None
    /\ sample_int = None
    /\ packets_list = <<>>
    /\ channels_filters = [k \in 1..ChannelsCount(type) |-> [st \in 1..Len(FILTER_STAGES) |-> <<>>]]
    /\ hpc = "idle"
    /\ hframe = <<>>
    /\ hrow = 0
    /\ hraw = "none"
    /\ hflt = "none"
    /\ hdata = <<>>
    /\ handler_exc = ""
    /\ received = 0
    /\ delivered = <<>>
    /\ realigned = FALSE
    /\ is_connected = FALSE
    /\ device_client = Some("BleakClient")
    /\ data_service = None
    /\ data_read_characteristic = None
    /\ data_control_characteristic = None
    /\ client_open = FALSE
    /\ notifying = FALSE
    /\ written = <<>>
    /\ exc = ""
    /\ ret = "None"
    /\ rec_emitted = <<>>
    /\ rows_fed = 0

-----------------------------------------------------------------------------
(* The synchronizer on its own: any caller, any clock *)

ChannelCounts == {6, 8}
SyncInputs == {Vec(n, v) : n \in ChannelCounts, v \in {Zero, RawValue(1, 0)}}

\* the state after DataSynchronizer.__init__
InitSynchronizer ==
    /\ first_run = TRUE
    /\ expected_time_limit = None
    /\ sync_ret = <<>>
    /\ sync_arg = None
    /\ sync_time = None
    /\ sync_calls = 0
    /\ sync_seed = None
    /\ sync_count = 0
    /\ sync_late = FALSE

InitSync ==
    /\ now = 0
    /\ InitSynchronizer
    /\ InitDevice
    /\ InitScanner({ALL})
    /\ type = "NEUROPLAY_6C"
    /\ sample_bytes = <<0, 0, 0>>
    /\ phase = 0

Tick ==
    /\ \E d \in 1..MaxTick : now + d <= MaxClock /\ now' = now + d
    /\ UNCHANGED <<syncVars, type, recVars, valVars, gateVars, linkVars, decVars, outVars, rows_fed, convVars, scanVars, streamVars>>

SyncCall ==
    /\ sync_calls < MaxSyncCalls
    /\ \E data \in SyncInputs : SyncCallEffect(data)
    /\ UNCHANGED <<now, type, recVars, valVars, gateVars, linkVars, decVars, outVars, rows_fed, convVars, scanVars, streamVars>>

SyncReset ==
    /\ ResetEffect
    /\ UNCHANGED <<now, type, recVars, valVars, gateVars, linkVars, decVars, outVars, rows_fed, convVars, scanVars, streamVars>>

NextSync == Tick \/ SyncCall \/ SyncReset

SpecSync == InitSync /\ [][NextSync]_vars

-----------------------------------------------------------------------------
(* The recording pipeline: rows reach the filtered handler while recordings start and stop *)

\* the filtered row a decoder hands over: the values of one time step
FedRows(t) == {Vec(ChannelsCount(t), v) :
                 v \in {[pkt |-> n, slot |-> 0, flt |-> <<"high", "low", "notch">>] : n \in 1..2}}

StallSteps == {2 * Interval + 1}

InitRec ==
    /\ now = 0
    /\ InitSynchronizer
    /\ InitDevice
    /\ InitScanner({ALL})
    /\ type = "NEUROPLAY_6C"
    /\ sample_bytes = <<0, 0, 0>>
    /\ phase = 0

Stall ==
    /\ \E d \in StallSteps : now + d <= MaxRecClock /\ now' = now + d
    /\ UNCHANGED <<syncVars, type, recVars, valVars, gateVars, linkVars, decVars, outVars, rows_fed, convVars, scanVars, streamVars>>

FeedRow ==
    /\ rows_fed < MaxRows
    /\ rows_fed' = rows_fed + 1
    /\ \E data \in FedRows(type) : FilteredChannelsDataHandler(data)
    /\ ret' = "None"
    /\ UNCHANGED <<now, type, gateVars, linkVars, decVars, convVars, scanVars, streamVars>>

StartRec ==
    /\ \E p \in EdfPaths, io \in {"ok", "data", "annotations"} : StartRecording(p, io)
    /\ ret' = "None"
    /\ UNCHANGED <<now, type, valVars, gateVars, linkVars, decVars, rows_fed, convVars, scanVars, streamVars>>

StopRec ==
    /\ \E edf_fails \in BOOLEAN : StopRecording(edf_fails)
    /\ ret' = "None"
    /\ UNCHANGED <<now, type, valVars, gateVars, linkVars, decVars, rows_fed, convVars, scanVars, streamVars>>

AnnotationTexts == {"blink"}

WriteAnnotationCall ==
    /\ \E text \in AnnotationTexts : WriteAnnotation(text)
    /\ ret' = "None"
    /\ UNCHANGED <<now, type, valVars, gateVars, linkVars, decVars, rows_fed, convVars, scanVars, streamVars>>

\* connect to a peripheral that has the service and both characteristics, over a
\* transport that does not fail
ConnectHealthy ==
    /\ Connect(TRUE, TRUE, TRUE, "none")
    /\ UNCHANGED <<now, syncVars, type, recVars, valVars, gateVars, decVars, rows_fed, convVars, scanVars, streamVars>>

DisconnectCall ==
    /\ \E fail \in DisconnectFailures : Disconnect(fail)
    /\ UNCHANGED <<now, type, recVars, valVars, gateVars, decVars, rows_fed, convVars, scanVars, streamVars>>

NextRec ==
    \/ Stall
    \/ FeedRow
    \/ StartRec
    \/ StopRec
    \/ WriteAnnotationCall
    \/ ConnectHealthy
    \/ DisconnectCall

SpecRec == InitRec /\ [][NextRec]_vars

-----------------------------------------------------------------------------
(* Validation: callers of validate_channels while samples arrive *)

ValSteps == {2500}

\* the callers whose validate_channels call has not ended
InProgress == {c \in Callers : vpc[c] # "idle"}

\* the released lock has a caller to wake
GrantPending == validate_waiters # <<>> /\ ~validate_lock

InitVal ==
    /\ now = 0
    /\ InitSynchronizer
    /\ InitDevice
    /\ InitScanner({ALL})
    /\ type = "NEUROPLAY_6C"
    /\ sample_bytes = <<0, 0, 0>>
    /\ phase = 0

\* time passes: a woken caller runs at once, and a wait_for does not outlive its deadline
TickVal ==
    /\ ~GrantPending
    /\ \E d \in ValSteps :
          /\ now + d <= MaxValClock
          /\ \A c \in Callers : vpc[c] = "waiting" => now + d <= vdeadline[c][1]
          /\ now' = now + d
    /\ UNCHANGED <<syncVars, type, recVars, valVars, gateVars, linkVars, decVars, outVars, rows_fed, convVars, scanVars, streamVars>>

\* a task calls validate_channels; calls start while the clock leaves room for their deadlines
ValidateCall ==
    /\ \E c \in Callers :
          /\ vpc[c] = "idle"
          /\ now + (1 + Cardinality(InProgress)) * VALIDATE_TIMEOUT <= MaxValClock
          /\ ValidateChannels(c)
    /\ UNCHANGED <<now, syncVars, type, recVars, linkVars, decVars, outVars, rows_fed, convVars, scanVars, streamVars>>

GrantLock ==
    /\ GrantPending
    /\ LockGranted
    /\ UNCHANGED <<now, syncVars, type, recVars, linkVars, decVars, outVars, rows_fed, convVars, scanVars, streamVars>>

\* the completed event wakes the caller in wait_for
ResumeValidate(c) ==
    /\ vpc[c] = "waiting"
    /\ accumulating_completed
    /\ ValidateAfterWait(c, accumulating_event)
    /\ UNCHANGED <<now, syncVars, type, recVars, validate_waiters, linkVars, decVars, outVars,
                   rows_fed, convVars, scanVars, streamVars>>

\* the deadline of wait_for passes
TimeoutValidate(c) ==
    /\ vpc[c] = "waiting"
    /\ ~accumulating_completed
    /\ now >= vdeadline[c][1]
    /\ ValidateTimeout(c)
    /\ UNCHANGED <<now, syncVars, type, recVars, linkVars, decVars, outVars, rows_fed, convVars, scanVars, streamVars>>

ResumeVal == \E c \in Callers : ResumeValidate(c)

TimeoutVal == \E c \in Callers : TimeoutValidate(c)

\* a decoded row reaches the filtered handler; the row carries its number
FeedSample ==
    /\ notifying
    /\ rows_fed < MaxValRows
    /\ rows_fed' = rows_fed + 1
    /\ FilteredChannelsDataHandler(
          Vec(ChannelsCount(type), [pkt |-> rows_fed + 1, slot |-> 0, flt |-> FILTER_STAGES]))
    /\ ret' = "None"
    /\ UNCHANGED <<now, type, gateVars, linkVars, decVars, convVars, scanVars, streamVars>>

\* disconnect over a transport that does not fail
DisconnectHealthy ==
    /\ Disconnect("none")
    /\ UNCHANGED <<now, type, recVars, valVars, gateVars, decVars, rows_fed, convVars, scanVars, streamVars>>

NextVal ==
    \/ TickVal
    \/ ValidateCall
    \/ GrantLock
    \/ ResumeVal
    \/ TimeoutVal
    \/ FeedSample
    \/ ConnectHealthy
    \/ DisconnectHealthy

SpecVal == InitVal /\ [][NextVal]_vars

\* the event loop runs every task that is ready, and the clock advances
SpecValLive ==
    /\ SpecVal
    /\ WF_vars(TickVal)
    /\ WF_vars(GrantLock)
    /\ \A c \in Callers : WF_vars(ResumeValidate(c)) /\ WF_vars(TimeoutValidate(c))

-----------------------------------------------------------------------------
(* The session: notifications are decoded while the event loop runs the handler tasks *)

\* the first bytes the peripheral sends
FirstBytes == {0, 1}

Init ==
    /\ now = 0
    /\ InitSynchronizer
    /\ InitDevice
    /\ InitScanner({ALL})
    /\ type = "NEUROPLAY_6C"
    /\ sample_bytes = <<0, 0, 0>>
    /\ phase = 0

\* a notification: the event loop starts packet_handler on it
Notify ==
    /\ notifying
    /\ received < MaxPackets
    /\ \E b \in FirstBytes : PacketHandler(Packet(b, received + 1))
    /\ UNCHANGED <<now, syncVars, type, recVars, valVars, gateVars, linkVars, outVars, rows_fed, convVars, scanVars, streamVars>>

\* the event loop runs the raw handler task, the first that gather scheduled
RunRawHandler ==
    /\ hpc = "gather"
    /\ hraw = "pending"
    /\ RawChannelsDataHandler
    /\ UNCHANGED <<now, syncVars, type, recVars, valVars, gateVars, linkVars, outVars, rows_fed, convVars, scanVars, streamVars>>

\* the event loop runs the filtered handler task
RunFilteredHandler ==
    /\ hpc = "gather"
    /\ hraw = "done"
    /\ hflt = "pending"
    /\ FilteredTask
    /\ ret' = "None"
    /\ UNCHANGED <<now, type, gateVars, linkVars, rows_fed, convVars, scanVars, streamVars>>

\* the event loop resumes packet_handler
Resume ==
    /\ hpc = "gather"
    /\ GatherDone(hraw, hflt)
    /\ ResumePacketHandler
    /\ UNCHANGED <<now, syncVars, type, recVars, valVars, gateVars, linkVars, outVars, rows_fed, convVars, scanVars, streamVars>>

\* start_recording on a file system that does not fail
StartRecHealthy ==
    /\ \E p \in EdfPaths : StartRecording(p, "ok")
    /\ ret' = "None"
    /\ UNCHANGED <<now, type, valVars, gateVars, linkVars, decVars, rows_fed, convVars, scanVars, streamVars>>

Next ==
    \/ ConnectHealthy
    \/ Notify
    \/ RunRawHandler
    \/ RunFilteredHandler
    \/ Resume
    \/ StartRecHealthy
    \/ Stall

Spec == Init /\ [][Next]_vars

-----------------------------------------------------------------------------
(* The session's filters: the link, the recorder and validate_channels are used while
   notifications are decoded and filtered *)

InitFilters ==
    /\ now = 0
    /\ InitSynchronizer
    /\ InitDevice
    /\ InitScanner({ALL})
    /\ type \in DeviceTypes
    /\ sample_bytes = <<0, 0, 0>>
    /\ phase = 0

\* the packets of one frame and the first of the next
MaxFramePackets == 5

\* a notification of a peripheral whose frame ids run 0, 1, 2, 3 from the first packet
NotifyFrame ==
    /\ notifying
    /\ received < MaxFramePackets
    /\ PacketHandler(Packet(received % QUEUE_SIZE, received + 1))
    /\ UNCHANGED <<now, syncVars, type, recVars, valVars, gateVars, linkVars, outVars, rows_fed, convVars, scanVars, streamVars>>

\* one task calls validate_channels
ValidateOne ==
    /\ vpc[1] = "idle"
    /\ ValidateChannels(1)
    /\ UNCHANGED <<now, syncVars, type, recVars, linkVars, decVars, outVars, rows_fed, convVars, scanVars, streamVars>>

NextFilters ==
    \/ ConnectHealthy
    \/ DisconnectHealthy
    \/ StartRecHealthy
    \/ StopRec
    \/ ValidateOne
    \/ ResumeVal
    \/ NotifyFrame
    \/ RunRawHandler
    \/ RunFilteredHandler
    \/ Resume

SpecFilters == InitFilters /\ [][NextFilters]_vars

-----------------------------------------------------------------------------
(* The link: connect and disconnect against any peripheral and transport, with
   notifications while the subscription lasts *)

InitLink ==
    /\ now = 0
    /\ InitSynchronizer
    /\ InitDevice
    /\ InitScanner({ALL})
    /\ type = "NEUROPLAY_6C"
    /\ sample_bytes = <<0, 0, 0>>
    /\ phase = 0

ConnectCall ==
    /\ \E svc, ctl, dat \in BOOLEAN, fail \in ConnectFailures : Connect(svc, ctl, dat, fail)
    /\ UNCHANGED <<now, syncVars, type, recVars, valVars, gateVars, decVars, rows_fed, convVars, scanVars, streamVars>>

\* connect to a peripheral that lacks the EEG service or one of its two characteristics
ConnectMissing ==
    /\ \E svc, ctl, dat \in BOOLEAN, fail \in ConnectFailures :
          /\ ~(svc /\ ctl /\ dat)
          /\ Connect(svc, ctl, dat, fail)
    /\ UNCHANGED <<now, syncVars, type, recVars, valVars, gateVars, decVars, rows_fed, convVars, scanVars, streamVars>>

\* AbstractNeuroPlayDevice.__aexit__: disconnect(), and when it has returned
\* self.__packets_list.clear()
AExitCall ==
    /\ \E fail \in DisconnectFailures : Disconnect(fail)
    /\ packets_list' = IF is_connected THEN <<>> ELSE packets_list
    /\ UNCHANGED <<channels_filters, hpc, hframe, hrow, hraw, hflt, hdata, handler_exc,
                   received, delivered, realigned>>
    /\ UNCHANGED <<now, type, recVars, valVars, gateVars, rows_fed, convVars, scanVars, streamVars>>

NextLink ==
    \/ ConnectCall
    \/ DisconnectCall
    \/ Notify
    \/ RunRawHandler
    \/ RunFilteredHandler
    \/ Resume

SpecLink == InitLink /\ [][NextLink]_vars

-----------------------------------------------------------------------------
(* Reconnection: a session is connected, disconnected and connected again while the
   peripheral sends packets *)

InitReconnect ==
    /\ now = 0
    /\ InitSynchronizer
    /\ InitDevice
    /\ InitScanner({ALL})
    /\ type = "NEUROPLAY_6C"
    /\ sample_bytes = <<0, 0, 0>>
    /\ phase = 0

NextReconnect ==
    \/ ConnectHealthy
    \/ DisconnectCall
    \/ AExitCall
    \/ Notify
    \/ RunRawHandler
    \/ RunFilteredHandler
    \/ Resume

SpecReconnect == InitReconnect /\ [][NextReconnect]_vars

-----------------------------------------------------------------------------
(* The cyclic stream: the frame ids of the packets run 0, 1, 2, 3, 0, ... from any phase *)

Phases == 0..(QUEUE_SIZE - 1)

InitStream ==
    /\ now = 0
    /\ InitSynchronizer
    /\ InitDevice
    /\ InitScanner({ALL})
    /\ type = "NEUROPLAY_6C"
    /\ sample_bytes = <<0, 0, 0>>
    /\ phase \in Phases

\* the next packet of the stream arrives: none is lost, and its id follows the last one's
NotifyCycle ==
    /\ notifying
    /\ received < MaxPackets
    /\ PacketHandler(Packet((phase + received) % QUEUE_SIZE, received + 1))
    /\ UNCHANGED <<now, syncVars, type, recVars, valVars, gateVars, linkVars, outVars, rows_fed, convVars, scanVars, streamVars>>

NextStream ==
    \/ ConnectHealthy
    \/ NotifyCycle
    \/ RunRawHandler
    \/ RunFilteredHandler
    \/ Resume

SpecStream == InitStream /\ [][NextStream]_vars

-----------------------------------------------------------------------------
(* The packet stream: notifications of any length *)

\* the lengths of the notifications the peripheral sends
PacketSizes == {PACKET_SIZE, PACKET_SIZE - 1}

InitPackets ==
    /\ now = 0
    /\ InitSynchronizer
    /\ InitDevice
    /\ InitScanner({ALL})
    /\ type = "NEUROPLAY_6C"
    /\ sample_bytes = <<0, 0, 0>>
    /\ phase = 0

NotifySized ==
    /\ notifying
    /\ received < MaxPackets
    /\ \E b \in FirstBytes, size \in PacketSizes :
          PacketHandler(SizedPacket(b, received + 1, size))
    /\ UNCHANGED <<now, syncVars, type, recVars, valVars, gateVars, linkVars, outVars, rows_fed, convVars, scanVars, streamVars>>

\* a notification shorter than PACKET_SIZE
NotifyShort ==
    /\ notifying
    /\ received < MaxPackets
    /\ \E b \in FirstBytes, size \in PacketSizes :
          /\ size < PACKET_SIZE
          /\ PacketHandler(SizedPacket(b, received + 1, size))
    /\ UNCHANGED <<now, syncVars, type, recVars, valVars, gateVars, linkVars, outVars, rows_fed, convVars, scanVars, streamVars>>

NextPackets ==
    \/ ConnectHealthy
    \/ NotifySized
    \/ RunRawHandler
    \/ RunFilteredHandler
    \/ Resume

SpecPackets == InitPackets /\ [][NextPackets]_vars

-----------------------------------------------------------------------------
(* The conversion of one slot of a packet *)

\* the byte values a slot is made of
ByteValues == {0, 1, 127, 128, 255}

InitConvert ==
    /\ now = 0
    /\ InitSynchronizer
    /\ InitDevice
    /\ InitScanner({ALL})
    /\ type \in DeviceTypes
    /\ sample_bytes \in {<<b0, b1, b2>> : b0 \in ByteValues, b1 \in ByteValues, b2 \in ByteValues}
    /\ phase = 0

ConvertSample ==
    /\ sample_int = None
    /\ sample_int' = Some(SampleInteger(sample_bytes))
    /\ UNCHANGED <<now, syncVars, type, recVars, valVars, gateVars, linkVars, decVars, outVars,
                   rows_fed, sample_bytes, scanVars, streamVars>>

NextConvert == ConvertSample

SpecConvert == InitConvert /\ [][NextConvert]_vars

-----------------------------------------------------------------------------
(* The scanner session *)

MaxAdverts == 4
MaxEpochs == 2

\* BLEDevice.name of the advertisements; None and '' are both <<>>
AdvertNames ==
    { <<>>,
      <<"Mi Band">>,
      <<"NeuroPlay", "-6C", " ", "(1234)">>,
      <<"NeuroPlay", "-8Cap", " ", "(77)">>,
      <<"NeuroPlay", "-6C">>,
      <<"NeuroPlay", " ", "(77)">> }

\* BLEDevice.address of the advertisements
Addresses == {"AA:01", "AA:02"}

InitScan ==
    /\ now = 0
    /\ InitSynchronizer
    /\ InitDevice
    /\ \E names \in {{ALL}, {NEUROPLAY_6C}, {NEUROPLAY_6C, NEUROPLAY_8CAP}} : InitScanner(names)
    /\ type = "NEUROPLAY_6C"
    /\ sample_bytes = <<0, 0, 0>>
    /\ phase = 0

OtherVars == <<now, syncVars, type, recVars, valVars, gateVars, linkVars, decVars, rows_fed,
               convVars, streamVars>>

ScannerStart ==
    /\ ~scanning
    /\ scanning' = TRUE
    /\ UNCHANGED <<devices_names, discovered_devices, generator_alive, sessions_made,
                   yielded, adverts, epoch, suppressed>>
    /\ UNCHANGED <<OtherVars, outVars>>

Advertise ==
    /\ scanning
    /\ generator_alive
    /\ adverts < MaxAdverts
    /\ \E device_name \in AdvertNames, device_address \in Addresses :
          DiscoverNext(device_name, device_address)
    /\ UNCHANGED OtherVars

\* an advertisement whose address is recorded already
AdvertiseRecorded ==
    /\ scanning
    /\ generator_alive
    /\ adverts < MaxAdverts
    /\ \E device_name \in AdvertNames, device_address \in Addresses :
          /\ device_address \in RecordedAddresses
          /\ DiscoverNext(device_name, device_address)
    /\ UNCHANGED OtherVars

Timeout ==
    /\ generator_alive
    /\ DiscoverNextTimeout
    /\ UNCHANGED OtherVars

Exhausted ==
    /\ ~generator_alive
    /\ DiscoverNextExhausted
    /\ UNCHANGED OtherVars

Clear ==
    /\ epoch < MaxEpochs
    /\ discovered_devices # {}
    /\ ClearDiscoveredDevices
    /\ UNCHANGED <<OtherVars, outVars>>

\* __aexit__: stop(), then clear_discovered_devices()
ScannerExit ==
    /\ scanning
    /\ epoch < MaxEpochs
    /\ scanning' = FALSE
    /\ discovered_devices' = {}
    /\ epoch' = epoch + 1
    /\ UNCHANGED <<devices_names, generator_alive, sessions_made, yielded, adverts,
                   suppressed>>
    /\ UNCHANGED <<OtherVars, outVars>>

NextScan ==
    \/ ScannerStart
    \/ Advertise
    \/ Timeout
    \/ Exhausted
    \/ Clear
    \/ ScannerExit

SpecScan == InitScan /\ [][NextScan]_vars

-----------------------------------------------------------------------------
(* Properties of the recorder operations *)

\* start_recording has returned and stop_recording has not
RecordingStarted ==
    /\ is_recording
    /\ csv_data_writer[ATTR_IS_RECORDING] = Some(TRUE)
    /\ csv_annotations_writer[ATTR_IS_RECORDING] = Some(TRUE)

\* C16: start_recording while a recording is active raises RuntimeError and changes
\* nothing: the synchronizer is not reset, and the paths, both CSV writers, the files and
\* the pending buffer are as before, the recording still active.
C16_StartWhileRecordingRefused ==
    [][(is_recording /\ StartRec) =>
          /\ exc' = "RuntimeError"
          /\ is_recording'
          /\ syncVars' = syncVars
          /\ recVars' = recVars]_vars

\* a refused start_recording in a recording that has buffered rows
C16_Witness ==
    /\ is_recording
    /\ exc = "RuntimeError"
    /\ is_connected
    /\ ~first_run
    /\ Len(buffer) >= 2

\* C17: write_annotation raises RuntimeError and leaves the files alone when the
\* coordinator is not recording; in a recording it raises nothing and appends the one
\* row (time since the recording started, text) to the annotations CSV.
C17_AnnotationAppended ==
    [][/\ (~is_recording /\ WriteAnnotationCall) => (exc' = "RuntimeError" /\ files' = files)
       /\ (RecordingStarted /\ WriteAnnotationCall) =>
             /\ exc' = ""
             /\ \E text \in AnnotationTexts :
                   files' = [files EXCEPT ![path_to_annotations_csv[1]] =
                                Append(@, <<now - csv_annotations_writer[ATTR_START_TIME][1],
                                            text>>)]]_vars

\* C22: stop_recording on an active recording flushes the pending buffer to the data CSV,
\* then closes both writers, then runs the EDF finalization, then clears the paths and the
\* flag: only the finalization can fail it; the finalization reads a data CSV that holds
\* every row passed to write_data since start_recording; and when stop_recording returns
\* the recording is not active and the pending buffer is empty.
C22_StopFlushesClosesFinalizes ==
    [][(RecordingStarted /\ StopRec) =>
          /\ exc' \in {"", "EdfError"}
          /\ files'[path_to_data_csv[1]] = files[path_to_data_csv[1]] \o buffer
          /\ Tail(files'[path_to_data_csv[1]]) = rec_emitted
          /\ csv_data_writer'[ATTR_IS_RECORDING] = Some(FALSE)
          /\ csv_annotations_writer'[ATTR_IS_RECORDING] = Some(FALSE)
          /\ exc' = "" =>
                /\ ~is_recording'
                /\ buffer' = <<>>
                /\ path_to_edf' = None
                /\ files'[path_to_edf[1]] = files'[path_to_data_csv[1]]]_vars

\* start_recording, called now, would raise whatever the file system does
StartMustFail == is_recording

\* stop_recording, called now, would raise whatever the EDF finalization does
StopMustFail ==
    \/ ~is_recording
    \/ buffer # <<>> /\ AppendRows(csv_data_writer, files, buffer).exc # ""
    \/ StopWriting(csv_annotations_writer).exc # ""
    \/ StopWriting(csv_data_writer).exc # ""

\* C25: between recorder operations the recording flag of the coordinator equals the
\* recording flag of the data CSV writer and that of the annotations CSV writer, also
\* after a start_recording or a stop_recording that raised; the coordinator is never in a
\* state where start_recording and stop_recording both fail.
C25_FlagsAgreeNeverStuck ==
    /\ csv_data_writer[ATTR_IS_RECORDING] = Some(is_recording)
    /\ csv_annotations_writer[ATTR_IS_RECORDING] = Some(is_recording)
    /\ ~(StartMustFail /\ StopMustFail)

-----------------------------------------------------------------------------
(* Properties of the scanner *)

\* C20: within one scanner session (until clear_discovered_devices or the scanner's
\* exit) at most one device session is yielded per address; an advertisement whose
\* address is recorded already neither constructs nor yields a session; and the
\* address of every session yielded in the current scanner session is recorded, with
\* that session.
C20_OneSessionPerAddress ==
    /\ [](\A i, j \in 1..Len(yielded) :
              (/\ i < j
               /\ yielded[i].epoch = yielded[j].epoch)
                  => yielded[i].device.address # yielded[j].device.address)
    /\ [](\A i \in 1..Len(yielded) :
              yielded[i].epoch = epoch
                  => [address |-> yielded[i].device.address,
                      device |-> yielded[i].device] \in discovered_devices)
    /\ [][AdvertiseRecorded =>
              /\ sessions_made' = sessions_made
              /\ yielded' = yielded
              /\ discovered_devices' = discovered_devices]_vars

\* an address yielded, advertised again with a valid name in the same scanner session
\* and passed over, then yielded again after the record was cleared
C20_Witness ==
    /\ Len(yielded) = 2
    /\ yielded[1].device.address = yielded[2].device.address
    /\ yielded[1].epoch < yielded[2].epoch
    /\ suppressed = 1
    /\ sessions_made = 2

-----------------------------------------------------------------------------
(* Properties of the link *)

C15_MissingPartsNothingWritten ==
    [][(~is_connected /\ ConnectMissing) =>
          /\ ret' = "False" \/ exc' # ""
          /\ written' = <<>>
          /\ ~notifying'
          /\ ~is_connected']_vars

\* C23: a connect() that does not reach the connected state (it returns False or raises)
\* leaves the BLE client released and the session not connected, and leaves the session
\* with a client on which a later connect() can be attempted.
C23_FailedConnectReleasesClient ==
    [][(ConnectCall /\ ~is_connected /\ ~is_connected') =>
          /\ ~client_open'
          /\ ~notifying'
          /\ device_client' # None]_vars

\* C27: when disconnect() has completed the packet FIFO is empty, and it is empty whenever
\* the session is not connected and no packet_handler call is suspended, so that the
\* packets of the next connection start a frame of their own.
C27_FifoEmptyAfterDisconnect ==
    /\ [][(is_connected /\ DisconnectCall) => packets_list' = <<>>]_vars
    /\ []((~is_connected /\ hpc = "idle") => packets_list = <<>>)

-----------------------------------------------------------------------------
(* Properties of validate_channels *)

\* a validate_channels call of c ends in this step
ValidateEnds(c) ==
    \/ vpc[c] = "waiting" /\ vpc'[c] = "idle"
    \/ vpc[c] # "waiting" /\ vresult'[c] # vresult[c]

\* C11: at most one validate_channels call is between __start_accumulation and
\* __reset_accumulation and it holds the lock; every end of a call, by result or by
\* RuntimeError, leaves the lock released; a caller queued on the lock gets it, and every
\* call ends.
C11_GateSerializesAndReleases ==
    /\ [](/\ Cardinality({c \in Callers : vpc[c] = "waiting"}) <= 1
          /\ (\E c \in Callers : vpc[c] = "waiting") => validate_lock)
    /\ [][\A c \in Callers : (ValidateEnds(c) \/ (vpc[c] # "idle" /\ vpc'[c] = "idle")) =>
              (~validate_lock' /\ vresult'[c] \in {"data", "RuntimeError"})]_vars
    /\ \A c \in Callers : (vpc[c] = "lock_wait") ~> (vpc[c] # "lock_wait")
    /\ \A c \in Callers : (vpc[c] # "idle") ~> (vpc[c] = "idle")

\* a caller queues on the lock while the other accumulates after an earlier call has ended
C11_Witness ==
    \E c, d \in Callers :
        /\ vpc[c] = "waiting"
        /\ vpc[d] = "lock_wait"
        /\ vresult[d] # "none"

\* C12: when the deadline of wait_for passes before the buffer holds fs samples, the call
\* fails and leaves the accumulating event clear, the completed event clear and the
\* validation buffer empty.
C12_TimeoutTearsDown ==
    [][\A c \in Callers :
          (vpc[c] = "waiting" /\ ~accumulating_completed /\ vpc'[c] = "idle") =>
              /\ vresult'[c] = "RuntimeError"
              /\ ~accumulating_event'
              /\ ~accumulating_completed'
              /\ valid_buffer' = <<>>]_vars

\* C13: the validation buffer never holds more than fs vectors, and a quality result is
\* computed from a buffer of exactly fs vectors.
C13_BufferHoldsFsAtCompletion ==
    /\ Len(valid_buffer) <= SAMPLING_RATE
    /\ validated_from # None => Len(validated_from[1]) = SAMPLING_RATE

\* C21: the validation buffer grows only while a validate_channels call holds the lock
\* and waits for completion; whenever no call is in progress the accumulating event is
\* clear and the buffer is empty; a call that enables accumulation starts from an empty
\* buffer, and a quality result is computed only by a call that has waited.
C21_BufferLiveOnlyDuringRequest ==
    /\ [](InProgress = {} => (~accumulating_event /\ valid_buffer = <<>>))
    /\ [][Len(valid_buffer') > Len(valid_buffer) =>
              (validate_lock /\ \E c \in Callers : vpc[c] = "waiting")]_vars
    /\ [][\A c \in Callers :
              (vpc[c] # "waiting" /\ vpc'[c] = "waiting") => valid_buffer' = <<>>]_vars
    /\ [][validated_from' # validated_from => \E c \in Callers : vpc[c] = "waiting"]_vars

-----------------------------------------------------------------------------
(* Properties of the filters *)

\* sample v as the stages before stage st have returned it
AfterStages(v, st) == [v EXCEPT !.flt = @ \o SubSeq(<<"high", "low", "notch">>, 1, st - 1)]

\* C24: the filter memory of every channel persists for the life of the session:
\* connect, disconnect, start_recording, stop_recording and validate_channels leave it
\* unchanged and no step resets it; filtering one decoded row feeds channel k's sample,
\* and no other, to channel k's cascade: to the high-pass, its result to the low-pass,
\* that result to the notch, whose result is the filtered value of channel k.
C24_FilterMemoryPersists ==
    [][/\ (\/ ConnectHealthy
           \/ DisconnectHealthy
           \/ StartRecHealthy
           \/ StopRec
           \/ ValidateOne
           \/ ResumeVal) => channels_filters' = channels_filters
       /\ DOMAIN channels_filters' = 1..ChannelsCount(type)
       /\ channels_filters' # channels_filters =>
             /\ hpc' = "gather"
             /\ \A k \in 1..ChannelsCount(type) :
                   LET sample == SamplesPackets(hframe', type)[hrow'][k]
                   IN  /\ \A st \in 1..3 :
                             channels_filters'[k][st] =
                                 Append(channels_filters[k][st], AfterStages(sample, st))
                       /\ hdata'[k] = AfterStages(sample, 4)]_vars

\* the cascades have filtered the three rows of a frame, a validate_channels call has
\* returned its result from them, and the session is disconnected and recording
C24_Witness ==
    /\ ~is_connected
    /\ is_recording
    /\ \A k \in 1..ChannelsCount(type) : Len(channels_filters[k][3]) = 3
    /\ \E c \in Callers : vresult[c] = "data"

-----------------------------------------------------------------------------
(* Properties of the decoder *)

\* the packet_handler call that decoded a frame ends, by return or by exception
DecodeEnds == hpc = "gather" /\ hpc' = "idle"

\* a notification finds three packets queued behind a head whose id is not 0
RealignCase == received' = received + 1 /\ Len(packets_list) = 3 /\ FrameId(packets_list[1]) # 0

\* C2: a notification that fills the FIFO to 4 behind a head of id 0 starts a decode, and
\* when the call that decodes ends, 3 rows have gone to both handlers and the FIFO is empty.
C2_FrameDecodedThenCleared ==
    [][/\ (received' = received + 1 /\ Len(packets_list) = 3 /\ FrameId(packets_list[1]) = 0)
            => (hpc' = "gather" /\ hrow' = 1)
       /\ DecodeEnds => (Len(delivered') = 6 /\ packets_list' = <<>>)]_vars

\* C3: a notification that fills the FIFO to 4 behind a head of id other than 0 emits no
\* row, removes the head alone, keeps the order of the other three and raises nothing; a
\* frame decoded after such a pop still sends 3 rows to both handlers and empties the FIFO.
C3_RealignThenDecode ==
    [][/\ RealignCase =>
            /\ Len(packets_list') = 3
            /\ \A i \in 1..2 : packets_list'[i] = packets_list[i + 1]
            /\ packets_list'[3].n = received'
            /\ delivered' = delivered
            /\ hpc' = hpc
            /\ handler_exc' = ""
       /\ (DecodeEnds /\ realigned) => (Len(delivered') = 6 /\ packets_list' = <<>>)]_vars

\* C4: the FIFO never holds more than 4 packets.
C4_FifoNeverExceedsQueueSize == Len(packets_list) <= QUEUE_SIZE

\* C5: a decoded frame is 4 packets received one after the other, and the clear that
\* follows the decode removes the packets of that frame and no other packet.
C5_ClearRemovesOnlyTheFrame ==
    [][/\ (hpc = "idle" /\ hpc' = "gather") =>
            \A i \in 1..3 : hframe'[i + 1].n = hframe'[i].n + 1
       /\ (DecodeEnds /\ packets_list' = <<>>) => packets_list = hframe]_vars

\* C28: when a handler or a recording write raises while the rows of a frame are
\* delivered, the packet_handler call ends with the failed frame out of the FIFO, and the
\* FIFO has room to fill to a frame again, so that later frames are decoded.
C28_DecoderUsableAfterRaise ==
    /\ [][(hpc = "gather" /\ hpc' = "idle" /\ handler_exc' # "") => packets_list' = <<>>]_vars
    /\ []((hpc = "idle" /\ handler_exc # "") => Len(packets_list) < QUEUE_SIZE)

\* C29: on a stream whose frame ids run 0, 1, 2, 3 from any phase, fed without loss into
\* an empty FIFO, the decoder discards only packets from among the first three and only
\* before its first decode; the packets it removes afterwards are those of the frame it
\* has decoded; and every frame it decodes has the ids 0, 1, 2, 3 in that order.
C29_CyclicStreamAligns ==
    [][/\ (hpc = "idle" /\ hpc' = "gather") =>
             \A i \in 1..QUEUE_SIZE : FrameId(hframe'[i]) = i - 1
       /\ \A i \in 1..Len(packets_list) :
             (\A j \in 1..Len(packets_list') : packets_list'[j] # packets_list[i]) =>
                 \/ /\ hframe = <<>>
                    /\ i = 1
                    /\ packets_list[i].n <= QUEUE_SIZE - 1
                    /\ FrameId(packets_list[i]) # 0
                 \/ /\ DecodeEnds
                    /\ \E k \in 1..Len(hframe) : hframe[k] = packets_list[i]]_vars

\* the 24-bit big-endian two's-complement value of three bytes
Signed24(bytes) ==
    bytes[1] * 65536 + bytes[2] * 256 + bytes[3] - (IF bytes[1] >= 128 THEN 16777216 ELSE 0)

\* C19: the integer multiplied by MAGIC_MICROVOLTS_BIT is the 24-bit big-endian
\* two's-complement value of the slot's three bytes, in -2^23 .. 2^23 - 1; 7F FF FF
\* gives 8388607.
C19_SampleIsSigned24 ==
    sample_int # None =>
        /\ sample_int[1] = Signed24(sample_bytes)
        /\ sample_int[1] >= 0 - 8388608
        /\ sample_int[1] <= 8388607
        /\ sample_bytes = <<127, 255, 255>> => sample_int[1] = 8388607

\* C18: a notification shorter than 20 bytes is not appended to the FIFO and starts
\* nothing, and no decoded frame holds a packet shorter than 20 bytes.
C18_ShortPacketDiscarded ==
    [][/\ NotifyShort =>
            /\ packets_list' = packets_list
            /\ hpc' = hpc
            /\ delivered' = delivered
       /\ \A i \in 1..Len(hframe') : hframe'[i].size = PACKET_SIZE]_vars

\* the handler runs of a frame so far: row 1 raw, row 1 filtered, row 2 raw, ..., each raw
\* run with the row's raw values and each filtered run with the same values filtered
DeliveredInOrder ==
    /\ Len(delivered) <= 6
    /\ \A i \in 1..Len(delivered) :
          /\ delivered[i].row = (i + 1) \div 2
          /\ IF i % 2 = 1
             THEN /\ delivered[i].handler = "raw"
                  /\ delivered[i].data =
                        [k \in 1..ChannelsCount(type) |->
                            RawSample(hframe, 8 * (delivered[i].row - 1) + KeptColumns(type)[k])]
             ELSE /\ delivered[i].handler = "filtered"
                  /\ delivered[i].data =
                        [k \in 1..ChannelsCount(type) |->
                            [delivered[i - 1].data[k] EXCEPT !.flt = FILTER_STAGES]]

\* C6: the rows of a frame reach the handlers in time order, the raw and the filtered
\* handler of a row both run before either runs for the next row, and the FIFO is cleared
\* only after both handlers of the third row have finished.
C6_RowsInOrderClearLast ==
    [][/\ DeliveredInOrder'
       /\ (packets_list # <<>> /\ packets_list' = <<>>) =>
             (Len(delivered) = 6 /\ hrow = 3 /\ hraw = "done" /\ hflt = "done")]_vars

C6_Witness ==
    /\ received >= QUEUE_SIZE
    /\ Len(delivered) = 6
    /\ hpc = "idle"
    /\ packets_list = <<>>

-----------------------------------------------------------------------------
(* Properties of the synchronizer *)

\* a step that is one synchronize_data call
IsSyncCall == sync_calls' = sync_calls + 1

\* C7: every synchronize_data call returns at least one vector, the supplied sample is the
\* last vector of the list and the only entry that is the caller's object, and between
\* two resets every call leaves the watermark strictly greater than it found it, with the
\* seed untouched.
C7_SampleLastOnceWatermarkGrows ==
    [][IsSyncCall =>
         /\ Len(sync_ret') >= 1
         /\ sync_ret'[Len(sync_ret')] = [gap |-> FALSE, vec |-> sync_arg'[1]]
         /\ \A i \in 1..(Len(sync_ret') - 1) : sync_ret'[i].gap
         /\ expected_time_limit' # None
         /\ expected_time_limit # None =>
               /\ expected_time_limit'[1] > expected_time_limit[1]
               /\ sync_seed' = sync_seed]_vars

C7_Witness ==
    /\ sync_calls >= 3
    /\ Len(sync_ret) >= 3
    /\ sync_ret[1].vec = sync_arg[1]

\* the smallest positive k with w + k*T >= c, for a watermark w behind the clock c
SmallestK(w, c) ==
    CHOOSE k \in 1..(c - w) :
        /\ w + k * Interval >= c
        /\ \A j \in 1..(k - 1) : w + j * Interval < c

\* C9: a synchronize_data call whose watermark w, after the advance by T, is behind its
\* clock reading c returns k zero vectors of the sample's length and then the sample, k
\* the smallest positive integer with w + k*T >= c; and a first sample at t = 0 followed
\* by a second at t = 25 gives 4 vectors in all, the second call returning
\* zeros, zeros, sample.
C9_GapFillCount ==
    [][IsSyncCall =>
         LET c == sync_time'[1]
             w == (IF first_run THEN c ELSE expected_time_limit[1]) + Interval
             data == sync_arg'[1]
             zeros == [gap |-> TRUE, vec |-> Vec(Len(data), Zero)]
         IN  /\ w < c =>
                   sync_ret' = [i \in 1..SmallestK(w, c) |-> zeros]
                               \o <<[gap |-> FALSE, vec |-> data]>>
             /\ (sync_calls = 1 /\ sync_seed = Some(0) /\ c = 25) =>
                   /\ sync_count = 1
                   /\ sync_count' = 4
                   /\ sync_ret' = <<zeros, zeros, [gap |-> FALSE, vec |-> data]>>]_vars

C9_Witness ==
    /\ sync_calls = 2
    /\ sync_seed = Some(0)
    /\ sync_time = Some(25)
    /\ sync_count = 4
    /\ Len(sync_ret) = 3

\* C26: between two resets, after every synchronize_data call the watermark is the seed,
\* the clock reading of the first call after the reset, plus T times the number of
\* vectors returned since that reset; every call advances the watermark by T for each
\* vector it returns, sample or zero vector.
C26_WatermarkCountsVectors ==
    /\ [](sync_calls >= 1 =>
              /\ sync_seed # None
              /\ expected_time_limit = Some(sync_seed[1] + Interval * sync_count))
    /\ [][IsSyncCall =>
              /\ first_run => sync_seed' = sync_time'
              /\ expected_time_limit'[1] =
                     (IF first_run THEN sync_seed'[1] ELSE expected_time_limit[1])
                         + Interval * Len(sync_ret')]_vars

\* three calls since a reset seeded after the clock had started, a gap filled on the way
C26_Witness ==
    /\ sync_calls = 3
    /\ sync_seed # None
    /\ sync_seed[1] > 0
    /\ sync_count >= 5

-----------------------------------------------------------------------------
(* Properties of the recording pipeline *)

\* the rows of the staged data CSV below its header
FlushedRows ==
    IF path_to_data_csv = None \/ files[path_to_data_csv[1]] = <<>>
    THEN <<>>
    ELSE Tail(files[path_to_data_csv[1]])

\* C1: while a recording is active, the rows flushed to the data CSV followed by the
\* pending buffer are the vectors the synchronizer returned since start_recording, each
\* once and in order.
C1_EmittedExactlyOnceInOrder ==
    RecordingStarted => FlushedRows \o buffer = rec_emitted

Abs(x) == IF x < 0 THEN 0 - x ELSE x

\* round(dt / T), halves to the even neighbour as Python rounds
RoundIntervals(dt) ==
    LET q == dt \div Interval
        r == dt % Interval
    IN  IF 2 * r < Interval THEN q
        ELSE IF 2 * r > Interval THEN q + 1
        ELSE IF q % 2 = 0 THEN q ELSE q + 1

\* C8 as claimed, for the intervals that start at the synchronizer's first call of the
\* recording and end now: once such an interval is at least T long, the rows produced in
\* it number round(dt * fs) give or take one.
C8_RowsMatchElapsedTime ==
    (RecordingStarted /\ sync_calls > 0 /\ now - sync_seed[1] >= Interval) =>
        Abs(sync_count - RoundIntervals(now - sync_seed[1])) <= 1

\* C8 as amended: in a recording every synchronize_data call adds at least one row, and
\* after a call at clock reading c the rows produced since the reset cover the time from
\* the first call t0 to c: count * T >= c - t0.
C8_RowsCoverElapsedTime ==
    (is_recording /\ sync_calls > 0) =>
        /\ sync_count >= sync_calls
        /\ sync_count * Interval >= sync_time[1] - sync_seed[1]

C8_Witness ==
    /\ is_recording
    /\ sync_calls = 3
    /\ sync_count > sync_calls
    /\ sync_time[1] - sync_seed[1] > 2 * Interval
    /\ exc = ""

\* C10: a start_recording that passes its guard and a disconnect of a connected session
\* both leave the synchronizer reset, and the first synchronize_data call after a reset
\* sets the watermark to its own clock reading plus T and returns the sample alone.
C10_ResetThenReseed ==
    [][/\ (~is_recording /\ is_recording') => (first_run' /\ expected_time_limit' = None)
       /\ (is_connected /\ ~is_connected') => (first_run' /\ expected_time_limit' = None)
       /\ (IsSyncCall /\ first_run) =>
             /\ expected_time_limit' = Some(sync_time'[1] + Interval)
             /\ sync_ret' = <<[gap |-> FALSE, vec |-> sync_arg'[1]]>>
       /\ (IsSyncCall /\ sync_calls = 0) => first_run]_vars

\* the first call after a disconnect's reset, more than T after the call before it
C10_Witness ==
    /\ is_recording
    /\ ~is_connected
    /\ sync_calls = 1
    /\ sync_late
    /\ Len(rec_emitted) >= 2
    /\ Len(sync_ret) = 1

====
